---- MODULE Spec2Model ----
(***************************************************************************)
(* Model of glucometerutils/support/freestyle.py: the FreeStyle HID        *)
(* framing protocol (frame codec, response reader, text command exchange,  *)
(* checksum verification, multi-record extraction, the connect handshake   *)
(* and the date and time methods).                                         *)
(*                                                                         *)
(* Byte strings (Python bytes) are sequences of integers 0..255; text      *)
(* (Python str) is a sequence of code points.  Literals are written as     *)
(* their ASCII codes, with the text they stand for in a comment.           *)
(***************************************************************************)
EXTENDS Integers, Sequences, FiniteSets, TLC

VARIABLES
    pc,            \* position of the caller: "idle", "reading", "done"
    op,            \* the method the caller invoked
    command,       \* the command bytes handed to _send_text_command
    written,       \* packets the running method handed to _write, in order
    stream,        \* device side: the reply bytes queued for the method
    sent,          \* device side: how many bytes of stream went out in frames
    strays,        \* strays skipped in a row (nested _read_response calls)
    message_type,  \* local of _send_text_command: type of the last frame
    full_content,  \* local of _send_text_command: the reassembly buffer
    reply,         \* outcome of _send_text_command (return value or raise)
    mr_match,      \* local `match` of _get_multirecord
    fetched,       \* outcome of the method the caller invoked
    todo,          \* what the running method has still to send after this
    results,       \* what the reads and exchanges of the method returned
    stale,         \* device side: bytes of stream that answer earlier commands
    ops,           \* number of methods invoked on this transport so far
    call,          \* a direct call of a module-level function: its arguments
    ret            \* ... and what the call produced

vars == <<pc, op, command, written, stream, sent, strays, message_type,
          full_content, reply, mr_match, fetched, todo, results, stale, ops,
          call, ret>>

(***************************************************************************)
(* Bounds of the model.                                                    *)
(***************************************************************************)
\* the nested calls of _read_response the interpreter's stack has room for
\* (about a thousand in CPython; the call after the last one raises
\* RecursionError)
MaxNesting == 3
\* direct calls draw byte strings of at most this length
MaxLen == 3
\* at most this many methods are invoked on one transport
MaxOps == 2

(***************************************************************************)
(* Literals.                                                               *)
(***************************************************************************)
CRLF == <<13, 10>>                                  \* '\r\n'
CKSM == <<67, 75, 83, 77, 58>>                      \* 'CKSM:'
CMD_SP == <<67, 77, 68, 32>>                        \* 'CMD '
OK == <<79, 75>>                                    \* 'OK'
FAIL == <<70, 97, 105, 108, 33>>                    \* 'Fail!'
COMMA == <<44>>                                     \* ','
LOG_EMPTY == <<76, 111, 103, 32, 69, 109, 112, 116, 121, 13, 10>>
                                                    \* 'Log Empty\r\n'
COMMAND_FAILED == <<67, 111, 109, 109, 97, 110, 100, 32,
                    102, 97, 105, 108, 101, 100>>   \* 'Command failed'
\* 'Message type ' and ' does not match expectations: '
MSG_TYPE_HEAD == <<77, 101, 115, 115, 97, 103, 101, 32, 116, 121, 112, 101, 32>>
MSG_TYPE_TAIL == <<32, 100, 111, 101, 115, 32, 110, 111, 116, 32, 109, 97,
                   116, 99, 104, 32, 101, 120, 112, 101, 99, 116, 97, 116,
                   105, 111, 110, 115, 58, 32>>

INIT_SEQUENCE == <<1>>
TEXT_CMD == 96
TEXT_REPLY_CMD == 96
STRAY_TYPE == 34
STRAY_LENGTH == 1
COMMAND_REGION == 63
REPLACEMENT_CHAR == 65533

(***************************************************************************)
(* Outcomes of a call: nothing yet, a returned value, a raised exception.  *)
(***************************************************************************)
NoOutcome == [kind |-> "none", exc |-> "", value |-> <<>>, args |-> <<>>]
Return(v) == [kind |-> "return", exc |-> "", value |-> v, args |-> <<>>]
Raise(e, a) == [kind |-> "raise", exc |-> e, value |-> <<>>, args |-> a]

(***************************************************************************)
(* Sequence helpers.                                                       *)
(***************************************************************************)
Min(a, b) == IF a <= b THEN a ELSE b

\* Python slice s[i:j] with 0-based i, j (clamped to the sequence)
Slice(s, i, j) == SubSeq(s, i + 1, Min(j, Len(s)))

\* lit occurs in s starting at 1-based position i
HasAt(s, i, lit) ==
    /\ i >= 1
    /\ i + Len(lit) - 1 <= Len(s)
    /\ SubSeq(s, i, i + Len(lit) - 1) = lit

RECURSIVE Zeros(_)
Zeros(n) == IF n <= 0 THEN <<>> ELSE <<0>> \o Zeros(n - 1)

RECURSIVE Fill(_, _)
Fill(b, n) == IF n <= 0 THEN <<>> ELSE <<b>> \o Fill(b, n - 1)

IsDigit(c) == c \in 48..57
IsHexUpper(c) == c \in 48..57 \/ c \in 65..70

(***************************************************************************)
(* int(text, 16) and the formatting of numbers.                            *)
(***************************************************************************)
HexDigitValue(c) ==
    IF c \in 48..57 THEN c - 48
    ELSE IF c \in 65..70 THEN c - 55
    ELSE IF c \in 97..102 THEN c - 87
    ELSE -1

RECURSIVE HexDigitsValue(_)
HexDigitsValue(s) ==
    IF s = <<>> THEN 0
    ELSE 16 * HexDigitsValue(SubSeq(s, 1, Len(s) - 1)) + HexDigitValue(s[Len(s)])

\* int(s, 16): an optional '0x'/'0X' prefix, then hexadecimal digits
ParseInt16(s) ==
    IF Len(s) >= 2 /\ s[1] = 48 /\ s[2] \in {120, 88}
    THEN HexDigitsValue(SubSeq(s, 3, Len(s)))
    ELSE HexDigitsValue(s)

UpperHexDigit(d) == IF d < 10 THEN 48 + d ELSE 55 + d
LowerHexDigit(d) == IF d < 10 THEN 48 + d ELSE 87 + d

RECURSIVE LowerHexDigits(_)
LowerHexDigits(n) ==
    IF n < 16 THEN <<LowerHexDigit(n)>>
    ELSE LowerHexDigits(n \div 16) \o <<LowerHexDigit(n % 16)>>

\* Python's hex(n) for n >= 0: '0x' and lowercase digits
PyHex(n) == <<48, 120>> \o LowerHexDigits(n)

RECURSIVE UpperHexField(_, _)
UpperHexField(n, width) ==
    IF width = 0 THEN <<>>
    ELSE UpperHexField(n \div 16, width - 1) \o <<UpperHexDigit(n % 16)>>

\* the device's eight uppercase hexadecimal digits
Hex8(n) == UpperHexField(n, 8)

RECURSIVE Decimal(_)
Decimal(n) ==
    IF n < 10 THEN <<48 + n>> ELSE Decimal(n \div 10) \o <<48 + (n % 10)>>

(***************************************************************************)
(* The device side.  Total is the arithmetical sum of a byte string, which *)
(* the device transmits as the checksum of a reply body.                   *)
(***************************************************************************)
RECURSIVE Total(_)
Total(s) == IF s = <<>> THEN 0 ELSE s[1] + Total(Tail(s))

(***************************************************************************)
(* _FREESTYLE_MESSAGE.build: hid_report (constant 0), message_type, then   *)
(* the length-prefixed command padded with zeros to 63 bytes.              *)
(***************************************************************************)
FREESTYLE_MESSAGE_build_nopad(mt, cmd) ==
    IF 1 + Len(cmd) > COMMAND_REGION
    THEN Raise("PaddingError", <<1 + Len(cmd), COMMAND_REGION>>)
    ELSE Return(<<0, mt, Len(cmd)>> \o cmd)

FREESTYLE_MESSAGE_build_nolen(mt, cmd) ==
    IF Len(cmd) > COMMAND_REGION
    THEN Raise("PaddingError", <<Len(cmd), COMMAND_REGION>>)
    ELSE Return(<<0, mt>> \o cmd \o Zeros(COMMAND_REGION - Len(cmd)))

FREESTYLE_MESSAGE_build(mt, cmd) ==
    IF 1 + Len(cmd) > COMMAND_REGION
    THEN Raise("PaddingError", <<1 + Len(cmd), COMMAND_REGION>>)
    ELSE Return(<<0, mt, Len(cmd)>> \o cmd
                    \o Zeros(COMMAND_REGION - 1 - Len(cmd)))

(***************************************************************************)
(* _read_response: the header fields of an inbound packet, and the test    *)
(* for the stray 22 01 xx frames that are skipped.                         *)
(***************************************************************************)
read_response_fields(usb_packet) ==
    [message_type |-> usb_packet[1],
     message_length |-> usb_packet[2],
     message_content |-> Slice(usb_packet, 2, 2 + usb_packet[2])]

is_stray_never(message_type_, message_length) == FALSE

is_stray(message_type_, message_length) ==
    message_type_ = STRAY_TYPE /\ message_length = STRAY_LENGTH

(***************************************************************************)
(* _verify_checksum.  Iterating bytes yields the byte values, iterating    *)
(* text yields ord(c): in both cases the elements of the sequence.         *)
(***************************************************************************)
RECURSIVE calculated_checksum_mod256(_)
calculated_checksum_mod256(message) ==
    IF message = <<>> THEN 0
    ELSE (message[1] + calculated_checksum_mod256(Tail(message))) % 256

RECURSIVE calculated_checksum(_)
calculated_checksum(message) ==
    IF message = <<>> THEN 0
    ELSE message[1] + calculated_checksum(Tail(message))

verify_checksum_unchecked(message, expected_checksum_hex) == Return(<<>>)

verify_checksum(message, expected_checksum_hex) ==
    LET expected_checksum == ParseInt16(expected_checksum_hex)
        calculated == calculated_checksum(message)
    IN  IF expected_checksum # calculated
        THEN Raise("InvalidChecksum", <<expected_checksum, calculated>>)
        ELSE Return(<<>>)

(***************************************************************************)
(* _TEXT_COMPLETION_RE.search: 'CMD OK' or 'CMD Fail!' anywhere in the     *)
(* buffer.                                                                 *)
(***************************************************************************)
TEXT_COMPLETION_RE_search(buf) ==
    \E i \in 1..Len(buf) :
        \/ HasAt(buf, i, CMD_SP \o OK)
        \/ HasAt(buf, i, CMD_SP \o FAIL)

(***************************************************************************)
(* _TEXT_REPLY_FORMAT.search, with re.DOTALL: from the start of the buffer *)
(* any bytes (group message), 'CKSM:', eight characters of [0-9A-F] (group *)
(* checksum), CR LF, 'CMD ', 'OK' or 'Fail!' (group status), CR LF, $.     *)
(* Without re.MULTILINE, $ matches at the end of the buffer and before a   *)
(* line feed that ends the buffer.  The text after the message has a fixed *)
(* length for each status and each of the two places of $, and the four    *)
(* endings exclude each other, so at most one split of the buffer matches. *)
(***************************************************************************)
TextReplyTail(buf, status, extra) ==
    LET m == Len(buf) - (Len(CKSM) + 8 + Len(CRLF) + Len(CMD_SP)
                           + Len(status) + Len(CRLF) + extra)
    IN  /\ m >= 0
        /\ HasAt(buf, m + 1, CKSM)
        /\ \A i \in (m + 6)..(m + 13) : IsHexUpper(buf[i])
        /\ HasAt(buf, m + 14, CRLF \o CMD_SP \o status \o CRLF)
        /\ extra = 1 => buf[Len(buf)] = 10

TextReplyGroups(buf, status, extra) ==
    LET m == Len(buf) - (Len(CKSM) + 8 + Len(CRLF) + Len(CMD_SP)
                           + Len(status) + Len(CRLF) + extra)
    IN  [matched |-> TRUE,
         message |-> SubSeq(buf, 1, m),
         checksum |-> SubSeq(buf, m + 6, m + 13),
         status |-> status]

NoMatch == [matched |-> FALSE, message |-> <<>>, checksum |-> <<>>,
            status |-> <<>>]

TEXT_REPLY_FORMAT_search(buf) ==
    IF TextReplyTail(buf, OK, 0) THEN TextReplyGroups(buf, OK, 0)
    ELSE IF TextReplyTail(buf, OK, 1) THEN TextReplyGroups(buf, OK, 1)
    ELSE IF TextReplyTail(buf, FAIL, 0) THEN TextReplyGroups(buf, FAIL, 0)
    ELSE IF TextReplyTail(buf, FAIL, 1) THEN TextReplyGroups(buf, FAIL, 1)
    ELSE NoMatch

(***************************************************************************)
(* bytes.decode('ascii', 'replace'): every byte above 0x7F becomes U+FFFD. *)
(***************************************************************************)
decode_latin1(message) == message

decode_ascii_replace(message) ==
    [i \in 1..Len(message) |->
        IF message[i] < 128 THEN message[i] ELSE REPLACEMENT_CHAR]

\* 'Message type %02x does not match expectations: %r' (the payload itself
\* stands for its repr)
TypeMismatchText(mt, content) ==
    MSG_TYPE_HEAD \o <<LowerHexDigit(mt \div 16), LowerHexDigit(mt % 16)>>
        \o MSG_TYPE_TAIL \o content

(***************************************************************************)
(* _send_text_command after the loop: match, checksum, status, decode.     *)
(***************************************************************************)
send_text_command_tail_status_first(full) ==
    LET match == TEXT_REPLY_FORMAT_search(full)
        checked == verify_checksum(match.message, match.checksum)
    IN  IF ~match.matched THEN Raise("InvalidResponse", full)
        ELSE IF match.status # OK
        THEN Raise("InvalidResponse",
                   IF match.message # <<>> THEN match.message
                   ELSE COMMAND_FAILED)
        ELSE IF checked.kind = "raise" THEN checked
        ELSE Return(decode_ascii_replace(match.message))

send_text_command_tail_ignore_status(full) ==
    LET match == TEXT_REPLY_FORMAT_search(full)
        checked == verify_checksum(match.message, match.checksum)
    IN  IF ~match.matched THEN Raise("InvalidResponse", full)
        ELSE IF checked.kind = "raise" THEN checked
        ELSE Return(decode_ascii_replace(match.message))

send_text_command_tail(full) ==
    LET match == TEXT_REPLY_FORMAT_search(full)
        checked == verify_checksum(match.message, match.checksum)
    IN  IF ~match.matched THEN Raise("InvalidResponse", full)
        ELSE IF checked.kind = "raise" THEN checked
        ELSE IF match.status # OK
        THEN Raise("InvalidResponse",
                   IF match.message # <<>> THEN match.message
                   ELSE COMMAND_FAILED)
        ELSE Return(decode_ascii_replace(match.message))

(***************************************************************************)
(* One round of the loop of _send_text_command, for the frame that         *)
(* _read_response returned: the type check, the append, the completion     *)
(* test and, when the loop is left, the rest of the method.                *)
(***************************************************************************)
loop_body_no_type_check(full, mt, content) ==
    LET appended == full \o content
    IN  IF TEXT_COMPLETION_RE_search(appended)
        THEN [full_content |-> appended, leave |-> TRUE,
              out |-> send_text_command_tail(appended)]
        ELSE [full_content |-> appended, leave |-> FALSE, out |-> NoOutcome]

loop_body(full, mt, content) ==
    LET appended == full \o content
    IN  IF mt # TEXT_REPLY_CMD
        THEN [full_content |-> full, leave |-> TRUE,
              out |-> Raise("InvalidResponse", TypeMismatchText(mt, content))]
        ELSE IF TEXT_COMPLETION_RE_search(appended)
        THEN [full_content |-> appended, leave |-> TRUE,
              out |-> send_text_command_tail(appended)]
        ELSE [full_content |-> appended, leave |-> FALSE, out |-> NoOutcome]

(***************************************************************************)
(* _MULTIRECORDS_FORMAT.search, with re.DOTALL: from the start of the text *)
(* one or more characters and CR LF (group message, greedy), one or more   *)
(* decimal digits (group count), a comma, eight characters of [0-9A-F]     *)
(* (group checksum), CR LF, $.  The count is the whole run of digits       *)
(* before the comma, because the message has to end in a line feed.        *)
(***************************************************************************)
RECURSIVE DigitRun(_, _)
\* the number of consecutive decimal digits of text that end at position c
DigitRun(text, c) ==
    IF c >= 1 /\ IsDigit(text[c]) THEN 1 + DigitRun(text, c - 1) ELSE 0

\* e is the position of the line feed that ends the footer
MultirecordsFooter(text, e) ==
    LET k == DigitRun(text, e - 11)
        m == e - 11 - k
    IN  /\ e - 11 >= 1
        /\ HasAt(text, e - 1, CRLF)
        /\ \A i \in (e - 9)..(e - 2) : IsHexUpper(text[i])
        /\ text[e - 10] = 44
        /\ k >= 1
        /\ m >= 3
        /\ HasAt(text, m - 1, CRLF)

MultirecordsGroups(text, e) ==
    LET k == DigitRun(text, e - 11)
        m == e - 11 - k
    IN  [matched |-> TRUE,
         message |-> SubSeq(text, 1, m),
         count |-> SubSeq(text, m + 1, e - 11),
         checksum |-> SubSeq(text, e - 9, e - 2)]

NoFooter == [matched |-> FALSE, message |-> <<>>, count |-> <<>>,
             checksum |-> <<>>]

MULTIRECORDS_FORMAT_search_cksm(text) ==
    LET e == Len(text)
        k == DigitRun(text, e - 16)
        m == e - 16 - k
    IN  IF /\ e - 16 >= 1
           /\ HasAt(text, e - 1, CRLF)
           /\ \A i \in (e - 9)..(e - 2) : IsHexUpper(text[i])
           /\ HasAt(text, e - 15, COMMA \o CKSM)
           /\ k >= 1
           /\ m >= 3
           /\ HasAt(text, m - 1, CRLF)
        THEN [matched |-> TRUE,
              message |-> SubSeq(text, 1, m),
              count |-> SubSeq(text, m + 1, e - 16),
              checksum |-> SubSeq(text, e - 9, e - 2)]
        ELSE NoFooter

MULTIRECORDS_FORMAT_search(text) ==
    IF MultirecordsFooter(text, Len(text))
    THEN MultirecordsGroups(text, Len(text))
    ELSE IF /\ Len(text) >= 1
            /\ text[Len(text)] = 10
            /\ MultirecordsFooter(text, Len(text) - 1)
    THEN MultirecordsGroups(text, Len(text) - 1)
    ELSE NoFooter

(***************************************************************************)
(* records_str.split('\r\n') and csv.reader over the resulting lines.      *)
(* csv.reader yields one row for every line it is given: the fields of the *)
(* line, and the empty row [] for an empty line.  (Fields are split at     *)
(* commas; the records of the model contain no quote characters.)          *)
(***************************************************************************)
RECURSIVE FirstAt(_, _, _)
\* the first position >= i where sep occurs in s, 0 when there is none
FirstAt(s, i, sep) ==
    IF i + Len(sep) - 1 > Len(s) THEN 0
    ELSE IF HasAt(s, i, sep) THEN i
    ELSE FirstAt(s, i + 1, sep)

RECURSIVE split(_, _)
split(s, sep) ==
    LET i == FirstAt(s, 1, sep)
    IN  IF i = 0 THEN <<s>>
        ELSE <<SubSeq(s, 1, i - 1)>>
                 \o split(SubSeq(s, i + Len(sep), Len(s)), sep)

csv_row(line) == IF line = <<>> THEN <<>> ELSE split(line, COMMA)

csv_reader(lines) == [i \in 1..Len(lines) |-> csv_row(lines[i])]

(***************************************************************************)
(* _get_multirecord after the exchange.  r is the outcome of               *)
(* _send_text_command: an exception it raised propagates.  The result      *)
(* names the local `match` ("unset" when the code never assigned it).      *)
(***************************************************************************)
get_multirecord_tail_count_checked(r) ==
    LET message == r.value
        match == MULTIRECORDS_FORMAT_search(message)
        checked == verify_checksum(match.message, match.checksum)
        rows == csv_reader(split(match.message, CRLF))
    IN  IF r.kind = "raise" THEN [match |-> "unset", out |-> r]
        ELSE IF message = LOG_EMPTY
        THEN [match |-> "unset", out |-> Return(<<>>)]
        ELSE IF ~match.matched
        THEN [match |-> "none", out |-> Raise("InvalidResponse", message)]
        ELSE IF checked.kind = "raise"
        THEN [match |-> "matched", out |-> checked]
        ELSE IF match.count # Decimal(Len(rows) - 1)
        THEN [match |-> "matched", out |-> Raise("InvalidResponse", message)]
        ELSE [match |-> "matched", out |-> Return(rows)]

get_multirecord_tail_no_sentinel(r) ==
    LET message == r.value
        match == MULTIRECORDS_FORMAT_search(message)
        checked == verify_checksum(match.message, match.checksum)
    IN  IF r.kind = "raise" THEN [match |-> "unset", out |-> r]
        ELSE IF ~match.matched
        THEN [match |-> "none", out |-> Raise("InvalidResponse", message)]
        ELSE IF checked.kind = "raise"
        THEN [match |-> "matched", out |-> checked]
        ELSE [match |-> "matched",
              out |-> Return(csv_reader(split(match.message, CRLF)))]

get_multirecord_tail(r) ==
    LET message == r.value
        match == MULTIRECORDS_FORMAT_search(message)
        checked == verify_checksum(match.message, match.checksum)
    IN  IF r.kind = "raise" THEN [match |-> "unset", out |-> r]
        ELSE IF message = LOG_EMPTY
        THEN [match |-> "unset", out |-> Return(<<>>)]
        ELSE IF ~match.matched
        THEN [match |-> "none", out |-> Raise("InvalidResponse", message)]
        ELSE IF checked.kind = "raise"
        THEN [match |-> "matched", out |-> checked]
        ELSE [match |-> "matched",
              out |-> Return(csv_reader(split(match.message, CRLF)))]

(***************************************************************************)
(* The device: what it may answer to a text command.  A reply is a body,   *)
(* the checksum line and the status line; the bodies cover plain values,   *)
(* a body that contains the text 'CMD OK', a byte above 0x7F, the empty    *)
(* log and multi-record replies (records, then count ',' checksum CR LF).  *)
(***************************************************************************)
REC_ONE == <<49, 44, 50, 13, 10>>                   \* '1,2\r\n'
REC_TWO == <<49, 48, 44, 50, 53, 13, 10,
             49, 49, 44, 50, 54, 13, 10>>           \* '10,25\r\n11,26\r\n'
REC_HIGH == <<233, 13, 10>>                         \* b'\xe9\r\n'
DATE_VALUE == <<49, 50, 44, 51, 49, 44, 49, 57, 13, 10>>  \* '12,31,19\r\n'

MultiBody(records, count, cks) ==
    records \o Decimal(count) \o COMMA \o Hex8(cks) \o CRLF

\* '10,25\r\n11,26\r\n2,CKSM:00000131\r\n'
CKSM_FOOTER_TEXT == REC_TWO \o <<50>> \o COMMA \o CKSM \o Hex8(305) \o CRLF

Bodies ==
    { <<>>, <<65>>, CMD_SP \o OK, <<65, 255, 66>>, LOG_EMPTY, DATE_VALUE,
      MultiBody(REC_ONE, 1, Total(REC_ONE)),
      MultiBody(REC_ONE, 1, Total(REC_ONE) + 1),
      MultiBody(REC_ONE, 7, Total(REC_ONE)),
      MultiBody(REC_ONE, 12, Total(REC_ONE)),
      MultiBody(REC_TWO, 2, Total(REC_TWO)),
      MultiBody(REC_HIGH, 1, Total(REC_HIGH)),
      CKSM_FOOTER_TEXT }

Reply(body, cks, status) ==
    body \o CKSM \o Hex8(cks) \o CRLF \o CMD_SP \o status \o CRLF

Malformed ==
    { Reply(<<65>>, 65, OK) \o <<10>>,       \* a line feed after the reply
      CMD_SP \o OK \o CRLF,                  \* no checksum line
      <<74>> \o CKSM \o <<48, 48, 48, 48, 48, 48, 52, 97>> \o CRLF
          \o CMD_SP \o OK \o CRLF,           \* lowercase checksum digits
      <<65>> }                               \* no status line at all

\* the checksum the device transmits: the sum, or a wrong value
Checksums(b) == {Total(b), Total(b) + 1, Total(b) % 256}

\* bodies the device also sends with a wrong checksum or a failure status
FaultyBodies == { <<>>, <<65>>, DATE_VALUE }

Streams ==
    { Reply(b, Total(b), OK) : b \in Bodies }
        \cup UNION { { Reply(b, c, st) :
                         c \in Checksums(b), st \in {OK, FAIL} } :
                     b \in FaultyBodies }
        \cup Malformed

CMD_DATE == <<36, 100, 97, 116, 101, 63>>           \* '$date?'
\* the commands sent: '$date?', the empty command, and 62 and 63 bytes 'A'
Commands ==
    {CMD_DATE, <<>>, Fill(65, COMMAND_REGION - 1), Fill(65, COMMAND_REGION)}

\* what the device answers: any of Streams to '$date?', and an empty body
\* with status OK to the other commands
RepliesTo(cmd) ==
    IF cmd = CMD_DATE THEN Streams ELSE {Reply(<<>>, Total(<<>>), OK)}

\* what follows the payload in an inbound packet
Pads == {<<>>, <<0, 0>>}
\* the third byte of a stray 22 01 xx frame
StrayBytes == {0, 79}
\* frames that are neither replies nor strays: 01 01 'O' and 22 02 'OK'
OtherFrames == { <<1, <<79>> >>, <<STRAY_TYPE, OK>> }

(***************************************************************************)
(* Initial state: nothing called, nothing written, nothing read.           *)
(***************************************************************************)
NoCall == [fn |-> "none", mt |-> 0, data |-> <<>>, hex |-> <<>>,
           delta |-> 0, packet |-> <<>>, offset |-> 0]

Init ==
    /\ pc = "idle"
    /\ op = "none"
    /\ command = <<>>
    /\ written = <<>>
    /\ stream = <<>>
    /\ sent = 0
    /\ strays = 0
    /\ message_type = -1
    /\ full_content = <<>>
    /\ reply = NoOutcome
    /\ mr_match = "unset"
    /\ fetched = NoOutcome
    /\ todo = <<>>
    /\ results = <<>>
    /\ stale = 0
    /\ ops = 0
    /\ call = NoCall
    /\ ret = NoOutcome

(***************************************************************************)
(* The end of _send_text_command with outcome r, and with it the rest of   *)
(* the calling method: _get_multirecord goes on with lines 274-287.        *)
(***************************************************************************)
Finish(r) ==
    /\ pc' = "done"
    /\ reply' = r
    /\ IF op' = "multirecord"
       THEN /\ mr_match' = get_multirecord_tail(r).match
            /\ fetched' = get_multirecord_tail(r).out
       ELSE UNCHANGED <<mr_match, fetched>>

(***************************************************************************)
(* A method is called: _send_text_command(cmd), directly (as the getters   *)
(* do) or from _get_multirecord.  _send_command builds the packet and      *)
(* writes it; the device then has a reply to send.                         *)
(***************************************************************************)
Invoke(o, cmd) ==
    LET usb_packet == FREESTYLE_MESSAGE_build(TEXT_CMD, cmd)
    IN  /\ pc = "idle"
        /\ op' = o
        /\ command' = cmd
        /\ ops' = ops + 1
        /\ UNCHANGED <<strays, message_type, todo, results, stale, call, ret>>
        /\ IF usb_packet.kind = "raise"
           THEN /\ Finish(usb_packet)
                /\ UNCHANGED <<written, stream, sent, full_content>>
           ELSE /\ written' = Append(written, usb_packet.value)
                /\ full_content' = <<>>
                /\ pc' = "reading"
                /\ sent' = 0
                /\ \E s \in RepliesTo(cmd) : stream' = s
                /\ UNCHANGED <<reply, mr_match, fetched>>

SendTextCommand == \E cmd \in Commands : Invoke("text", cmd)

GetMultirecord == \E cmd \in Commands : Invoke("multirecord", cmd)

(***************************************************************************)
(* One packet arrives from the transport's _read during the loop of        *)
(* _send_text_command: _read_response decodes it and, when it is a stray,  *)
(* calls itself to read again, which fails with RecursionError once the    *)
(* stack is full; otherwise the loop body checks the type, appends, and    *)
(* either goes round again or leaves the loop and finishes the call.       *)
(***************************************************************************)
\* _read_response calls itself for a stray read at nesting depth + 1
read_response_recurse(depth) ==
    IF depth + 1 >= MaxNesting THEN Raise("RecursionError", <<>>)
    ELSE NoOutcome

OnPacket(usb_packet) ==
    LET f == read_response_fields(usb_packet)
        round == loop_body(full_content, f.message_type, f.message_content)
    IN  /\ UNCHANGED <<op, command, written, stream, todo, results, stale,
                       ops, call, ret>>
        /\ IF is_stray(f.message_type, f.message_length)
           THEN /\ strays' = strays + 1
                /\ UNCHANGED <<message_type, full_content>>
                /\ IF read_response_recurse(strays).kind = "raise"
                   THEN Finish(read_response_recurse(strays))
                   ELSE UNCHANGED <<pc, reply, mr_match, fetched>>
           ELSE /\ message_type' = f.message_type
                /\ full_content' = round.full_content
                /\ strays' = 0
                /\ IF round.leave
                   THEN Finish(round.out)
                   ELSE UNCHANGED <<pc, reply, mr_match, fetched>>

\* the device sends the next n bytes of its reply in a frame of the reply type
DeviceReplyFrame ==
    /\ pc = "reading"
    /\ \E n \in 0..Min(Len(stream) - sent, COMMAND_REGION - 1), pad \in Pads :
        /\ sent' = sent + n
        /\ OnPacket(<<TEXT_REPLY_CMD, n>>
                        \o SubSeq(stream, sent + 1, sent + n) \o pad)

\* the device sends a stray 22 01 xx frame
DeviceStrayFrame ==
    /\ pc = "reading"
    /\ \E x \in StrayBytes, pad \in Pads :
        /\ UNCHANGED sent
        /\ OnPacket(<<STRAY_TYPE, STRAY_LENGTH, x>> \o pad)

\* the device sends a frame of another type (or 0x22 with another length)
DeviceOtherFrame ==
    /\ pc = "reading"
    /\ \E o \in OtherFrames, pad \in Pads :
        /\ UNCHANGED sent
        /\ OnPacket(<<o[1], Len(o[2])>> \o o[2] \o pad)

Next ==
    \/ SendTextCommand
    \/ GetMultirecord
    \/ DeviceReplyFrame
    \/ DeviceStrayFrame
    \/ DeviceOtherFrame

Spec == Init /\ [][Next]_vars

(***************************************************************************)
(* The frame codec on its own: _send_command builds a packet for a message *)
(* type and a command, and the packet is decoded the way _read_response    *)
(* decodes an inbound packet, either as built (offset 0) or as it travels  *)
(* once the leading hid_report byte is taken off (offset 1).               *)
(***************************************************************************)
MessageTypes == {0, 1, TEXT_CMD, STRAY_TYPE, 255}
PayloadBytes == {0, 65, 255}

ByteStrings(alphabet, n) == UNION { [1..k -> alphabet] : k \in 0..n }

Payloads ==
    ByteStrings(PayloadBytes, MaxLen)
        \cup { Fill(65, COMMAND_REGION - 2), Fill(65, COMMAND_REGION - 1),
               Fill(65, COMMAND_REGION) }

UnchangedExchange ==
    UNCHANGED <<pc, op, command, written, stream, sent, strays,
                message_type, full_content, reply, mr_match, fetched,
                todo, results, stale, ops>>

CodecBuild ==
    /\ call.fn = "none"
    /\ \E mt \in MessageTypes, cmd \in Payloads :
        /\ call' = [call EXCEPT !.fn = "build", !.mt = mt, !.data = cmd]
        /\ ret' = FREESTYLE_MESSAGE_build(mt, cmd)
    /\ UnchangedExchange

CodecDecode ==
    /\ call.fn = "build"
    /\ ret.kind = "return"
    /\ \E off \in {0, 1} :
        LET usb_packet == SubSeq(ret.value, off + 1, Len(ret.value))
            f == read_response_fields(usb_packet)
        IN  /\ call' = [call EXCEPT !.fn = "decode", !.packet = ret.value,
                                    !.offset = off]
            /\ ret' = Return(<<f.message_type, f.message_content>>)
    /\ UnchangedExchange

NextCodec == CodecBuild \/ CodecDecode

SpecCodec == Init /\ [][NextCodec]_vars

(***************************************************************************)
(* _verify_checksum on its own: a message (bytes, or text with code points *)
(* above 0xFF) and the hexadecimal text of its sum or of its sum plus one, *)
(* written as hex() writes it or as eight uppercase digits.                *)
(***************************************************************************)
MessageChars == {0, 49, 200, 255, REPLACEMENT_CHAR}

VerifyChecksum ==
    /\ call.fn = "none"
    /\ \E message \in ByteStrings(MessageChars, MaxLen), d \in {0, 1} :
        \E h \in {PyHex(Total(message) + d), Hex8(Total(message) + d)} :
            /\ call' = [call EXCEPT !.fn = "verify", !.data = message,
                                    !.hex = h, !.delta = d]
            /\ ret' = verify_checksum(message, h)
    /\ UnchangedExchange

NextChecksum == VerifyChecksum

SpecChecksum == Init /\ [][NextChecksum]_vars

(***************************************************************************)
(* get_datetime and set_datetime: the texts of the two replies are         *)
(* stripped of trailing CR and LF characters, split at commas and read as  *)
(* integers (the model's texts hold plain decimal digits or are not        *)
(* numbers at all); the date is then validated by datetime.datetime.       *)
(***************************************************************************)
CMD_TIME == <<36, 116, 105, 109, 101, 63>>          \* '$time?'
DATE_COMMA == <<36, 100, 97, 116, 101, 44>>         \* '$date,'
TIME_COMMA == <<36, 116, 105, 109, 101, 44>>        \* '$time,'

RECURSIVE rstrip(_, _)
rstrip(text, chars) ==
    IF text # <<>> /\ text[Len(text)] \in chars
    THEN rstrip(SubSeq(text, 1, Len(text) - 1), chars)
    ELSE text

IsDecimal(x) == x # <<>> /\ \A i \in 1..Len(x) : IsDigit(x[i])

RECURSIVE DecimalValue(_)
DecimalValue(x) ==
    IF x = <<>> THEN 0
    ELSE 10 * DecimalValue(SubSeq(x, 1, Len(x) - 1)) + (x[Len(x)] - 48)

\* the generator of int(x) for the n fields of text, unpacked into n names
unpack_ints(text, n) ==
    LET fields == split(text, COMMA)
    IN  IF Len(fields) # n \/ \E i \in 1..Len(fields) : ~IsDecimal(fields[i])
        THEN Raise("ValueError", text)
        ELSE Return([i \in 1..n |-> DecimalValue(fields[i])])

IsLeap(year) == year % 4 = 0 /\ (year % 100 # 0 \/ year % 400 = 0)

DaysIn(year, month) ==
    IF month = 2 THEN (IF IsLeap(year) THEN 29 ELSE 28)
    ELSE IF month \in {4, 6, 9, 11} THEN 30 ELSE 31

\* datetime.datetime(year, month, day, hour, minute) accepts the values
IsDateTime(year, month, day, hour, minute) ==
    /\ year \in 1..9999
    /\ month \in 1..12
    /\ day \in 1..DaysIn(year, month)
    /\ hour \in 0..23
    /\ minute \in 0..59

get_datetime_tail(date_text, time_text) ==
    LET mdy == unpack_ints(rstrip(date_text, {13, 10}), 3)
        hm == unpack_ints(rstrip(time_text, {13, 10}), 2)
    IN  IF mdy.kind = "raise" THEN mdy
        ELSE IF hm.kind = "raise" THEN hm
        ELSE IF ~IsDateTime(mdy.value[3] + 2000, mdy.value[1], mdy.value[2],
                            hm.value[1], hm.value[2])
        THEN Raise("InvalidDateTime", <<>>)
        ELSE Return([year |-> mdy.value[3] + 2000, month |-> mdy.value[1],
                     day |-> mdy.value[2], hour |-> hm.value[1],
                     minute |-> hm.value[2]])

\* '$date,{month},{day},{year}' with the year as an offset to 2000
date_cmd(date) ==
    DATE_COMMA \o Decimal(date.month) \o COMMA \o Decimal(date.day)
        \o COMMA \o Decimal(date.year - 2000)

\* '$time,{hour},{minute}'
time_cmd(date) ==
    TIME_COMMA \o Decimal(date.hour) \o COMMA \o Decimal(date.minute)

\* the commands of the two methods, in the order of their statements
get_datetime_commands == <<CMD_DATE, CMD_TIME>>

set_datetime_commands(date) ==
    <<date_cmd(date), time_cmd(date)>> \o get_datetime_commands

(***************************************************************************)
(* A session: connect, get_datetime and set_datetime on one transport,     *)
(* one method after the other.  The device queues a reply for every        *)
(* command it receives behind what it has not delivered yet: stale marks   *)
(* where in stream the reply to the current command begins.  When a method *)
(* is invoked, written starts anew and stream keeps only what was queued   *)
(* and not read during the methods before.                                 *)
(***************************************************************************)
BAD_DATE == <<50, 53, 53, 44, 50, 53, 53, 44, 50, 53, 53, 13, 10>>
                                                    \* '255,255,255\r\n'
TIME_VALUE == <<49, 48, 44, 51, 48, 13, 10>>        \* '10,30\r\n'
TIME_SHORT == <<49, 48, 13, 10>>                    \* '10\r\n'

Dates ==
    { [year |-> 2019, month |-> 12, day |-> 31, hour |-> 10, minute |-> 30],
      [year |-> 2000, month |-> 1, day |-> 1, hour |-> 0, minute |-> 0] }

\* what the device answers to a command of the session
SessionReplies(cmd) ==
    IF cmd = CMD_DATE
    THEN {Reply(DATE_VALUE, Total(DATE_VALUE), OK),
          Reply(BAD_DATE, Total(BAD_DATE), OK)}
    ELSE IF cmd = CMD_TIME
    THEN {Reply(TIME_VALUE, Total(TIME_VALUE), OK),
          Reply(TIME_SHORT, Total(TIME_SHORT), OK)}
    ELSE {Reply(<<>>, Total(<<>>), OK), Reply(<<>>, Total(<<>>), FAIL)}

\* what the device answers to a message of the init sequence: a frame of
\* its own type, of the reply type, or of type 0x22 with two bytes
InitReplies ==
    { <<113, <<0, 1>> >>, <<TEXT_REPLY_CMD, CMD_SP \o FAIL>>,
      <<STRAY_TYPE, OK>> }

\* the end of the invoked method with outcome r
SessionEnd(r) ==
    /\ pc' = "done"
    /\ fetched' = r
    /\ UNCHANGED <<command, written, stream, stale, todo>>

\* the next statement is _send_text_command(cmd), rest being the commands
\* after it: _send_command builds the packet and writes it after the
\* packets before, the device queues its reply behind the bytes queued,
\* and the loop starts with an empty buffer
SessionSend(cmd, rest, before, queued) ==
    LET usb_packet == FREESTYLE_MESSAGE_build(TEXT_CMD, cmd)
    IN  IF usb_packet.kind = "raise"
        THEN SessionEnd(usb_packet)
        ELSE /\ command' = cmd
             /\ written' = Append(before, usb_packet.value)
             /\ todo' = rest
             /\ pc' = "reading"
             /\ stale' = Len(queued)
             /\ \E s \in SessionReplies(cmd) : stream' = queued \o s
             /\ fetched' = NoOutcome

\* a method is invoked that sends the commands cmds one after the other
SessionInvoke(o, cmds) ==
    /\ pc \in {"idle", "done"}
    /\ ops < MaxOps
    /\ ops' = ops + 1
    /\ op' = o
    /\ results' = <<>>
    /\ reply' = NoOutcome
    /\ full_content' = <<>>
    /\ message_type' = -1
    /\ strays' = 0
    /\ sent' = 0
    /\ UNCHANGED <<mr_match, call, ret>>
    /\ SessionSend(cmds[1], Tail(cmds), <<>>,
                   SubSeq(stream, sent + 1, Len(stream)))

GetDatetime == SessionInvoke("get_datetime", get_datetime_commands)

SetDatetime ==
    \E date \in Dates :
        SessionInvoke("set_datetime", set_datetime_commands(date))

\* connect, called on the fresh transport: the first message of the init
\* sequence is built with an empty command and written
Connect ==
    /\ pc = "idle"
    /\ ops' = ops + 1
    /\ op' = "connect"
    /\ written' = Append(written,
                         FREESTYLE_MESSAGE_build(INIT_SEQUENCE[1], <<>>).value)
    /\ todo' = Tail(INIT_SEQUENCE)
    /\ pc' = "reading"
    /\ UNCHANGED <<command, stream, sent, stale, strays, message_type,
                   full_content, reply, mr_match, fetched, results, call, ret>>

\* connect got the reply to one init message from _read_response: it drops
\* the value and goes on with the next message, or returns
connect_next(value) ==
    /\ results' = Append(results, value)
    /\ UNCHANGED <<command, stream, stale, message_type, full_content, reply>>
    /\ IF todo = <<>>
       THEN /\ pc' = "done"
            /\ fetched' = Return(<<>>)
            /\ UNCHANGED <<written, todo>>
       ELSE /\ written' = Append(written,
                                 FREESTYLE_MESSAGE_build(todo[1], <<>>).value)
            /\ todo' = Tail(todo)
            /\ UNCHANGED <<pc, fetched>>

exchange_next_ignore_failure(r) ==
    /\ reply' = r
    /\ results' = Append(results, r.value)
    /\ IF todo # <<>>
       THEN SessionSend(todo[1], Tail(todo), written, stream)
       ELSE SessionEnd(get_datetime_tail(results'[Len(results') - 1],
                                         results'[Len(results')]))

\* _send_text_command ended with outcome r: an exception ends the method;
\* a returned text is kept and the method goes on with its next command,
\* or, after the last one, get_datetime builds its result
exchange_next(r) ==
    /\ reply' = r
    /\ IF r.kind = "raise"
       THEN /\ SessionEnd(r)
            /\ UNCHANGED results
       ELSE /\ results' = Append(results, r.value)
            /\ IF todo # <<>>
               THEN SessionSend(todo[1], Tail(todo), written, stream)
               ELSE SessionEnd(get_datetime_tail(results'[Len(results') - 1],
                                                 results'[Len(results')]))

(***************************************************************************)
(* One packet arrives from the transport's _read while a method of the     *)
(* session waits in _read_response.                                        *)
(***************************************************************************)
SessionOnPacket(usb_packet) ==
    LET f == read_response_fields(usb_packet)
        round == loop_body(full_content, f.message_type, f.message_content)
    IN  /\ UNCHANGED <<op, ops, mr_match, call, ret>>
        /\ IF is_stray(f.message_type, f.message_length)
           THEN /\ strays' = strays + 1
                /\ UNCHANGED <<message_type, full_content, reply, results>>
                /\ IF read_response_recurse(strays).kind = "raise"
                   THEN SessionEnd(read_response_recurse(strays))
                   ELSE UNCHANGED <<pc, fetched, command, written, stream,
                                    stale, todo>>
           ELSE /\ strays' = 0
                /\ IF op = "connect"
                   THEN connect_next(<<f.message_type, f.message_content>>)
                   ELSE /\ message_type' = f.message_type
                        /\ IF round.leave
                           THEN /\ exchange_next(round.out)
                                /\ full_content' =
                                     IF pc' = "reading" THEN <<>>
                                     ELSE round.full_content
                           ELSE /\ full_content' = round.full_content
                                /\ UNCHANGED <<pc, fetched, command, written,
                                               stream, stale, todo, reply,
                                               results>>

\* the sizes of the next frame: what an earlier exchange left unread comes
\* as it was queued; a reply comes whole or cut in two
SessionFrameSizes ==
    IF sent < stale THEN {stale - sent}
    ELSE IF sent = stale THEN 1..(Len(stream) - sent)
    ELSE {Len(stream) - sent}

SessionReplyFrame ==
    /\ pc = "reading"
    /\ sent < Len(stream)
    /\ \E n \in SessionFrameSizes :
        /\ sent' = sent + n
        /\ SessionOnPacket(<<TEXT_REPLY_CMD, n>>
                               \o SubSeq(stream, sent + 1, sent + n))

\* stray frames and frames of another type come before the reply
SessionStrayFrame ==
    /\ pc = "reading"
    /\ sent <= stale
    /\ UNCHANGED sent
    /\ SessionOnPacket(<<STRAY_TYPE, STRAY_LENGTH, 0>>)

SessionOtherFrame ==
    /\ pc = "reading"
    /\ op # "connect"
    /\ sent <= stale
    /\ UNCHANGED sent
    /\ SessionOnPacket(<<1, 1, 79>>)

SessionInitReply ==
    /\ pc = "reading"
    /\ op = "connect"
    /\ UNCHANGED sent
    /\ \E o \in InitReplies : SessionOnPacket(<<o[1], Len(o[2])>> \o o[2])

NextSession ==
    \/ Connect
    \/ GetDatetime
    \/ SetDatetime
    \/ SessionReplyFrame
    \/ SessionStrayFrame
    \/ SessionOtherFrame
    \/ SessionInitReply

SpecSession == Init /\ [][NextSession]_vars

(***************************************************************************)
(* Properties.                                                             *)
(***************************************************************************)

\* the frames delivered so far were all reply-type frames carrying
\* consecutive fragments of the device's reply, or stray frames that
\* _read_response skipped
OnlyReplyFrames ==
    /\ message_type \in {-1, TEXT_REPLY_CMD}
    /\ reply.exc # "RecursionError"

\* the body b for which the byte string s is the reply b CKSM:hex8 status
IsReplyOf(s, b, status) == s = Reply(b, Total(b), status)

\* C1: reassembly is chunk-boundary-independent: however the reply
\* body + 'CKSM:' + hex8(sum(body)) + CR LF + 'CMD OK' + CR LF is cut into
\* frames of the reply type, _send_text_command returns the decoded body.
C1_ChunkBoundaryIndependent ==
    \A b \in Bodies :
        (/\ pc = "done"
         /\ OnlyReplyFrames
         /\ IsReplyOf(stream, b, OK))
            => reply = Return(decode_ascii_replace(b))

\* C2 (as stated): decoding the packet that _send_command builds, as
\* _read_response decodes a packet, yields the message type and the payload.
C2_RoundTripOfBuiltPacket ==
    (call.fn = "decode" /\ call.offset = 0)
        => ret = Return(<<call.mt, call.data>>)

\* C2 (amended): for every payload of at most 62 bytes the packet is built,
\* and decoding the packet without its leading hid_report byte yields the
\* message type and the payload.
C2_RoundTripAfterReportByte ==
    /\ (call.fn = "build" /\ Len(call.data) <= COMMAND_REGION - 1)
           => (ret.kind = "return" /\ ret.value[1] = 0)
    /\ (call.fn = "decode" /\ call.offset = 1)
           => ret = Return(<<call.mt, call.data>>)

C2_Witness ==
    /\ call.fn = "decode"
    /\ call.offset = 1
    /\ Len(call.data) = COMMAND_REGION - 1
    /\ call.mt = TEXT_CMD
    /\ ret = Return(<<call.mt, call.data>>)

\* C3: when _send_text_command returns a value, every appended frame had
\* the reply type, the buffer is body, 'CKSM:', the eight hex digits of the
\* plain sum of the body, CR LF, 'CMD OK', CR LF (the end of the buffer, or
\* a last line feed, follows), and the value is the decoded body; otherwise
\* it raises and neither it nor _get_multirecord hands out a result.
C3_ReturnsOnlyValidated ==
    /\ reply.kind = "return" =>
         /\ pc = "done"
         /\ message_type = TEXT_REPLY_CMD
         /\ full_content = SubSeq(stream, 1, sent)
         /\ \E k \in 0..Len(full_content), last \in {<<>>, <<10>>} :
               LET body == SubSeq(full_content, 1, k)
               IN  /\ full_content = Reply(body, Total(body), OK) \o last
                   /\ reply.value = decode_ascii_replace(body)
    /\ reply.kind # "return" => (reply.value = <<>> /\ fetched.kind # "return")
    /\ pc = "done" => reply.kind \in {"return", "raise"}

C3_Witness ==
    /\ pc = "done"
    /\ sent = Len(stream)
    /\ Total(DATE_VALUE) > 255
    /\ reply = Return(DATE_VALUE)

\* C4: stray frames (type 0x22, length byte 1) never affect an exchange,
\* however many there are and wherever they come: no exchange ends on one,
\* the buffer holds exactly the payloads of the reply frames, and a
\* returned text is the decoded body of those payloads.
C4_StraysNeverAffect ==
    /\ full_content = SubSeq(stream, 1, sent)
    /\ reply.exc # "RecursionError"
    /\ \A x \in StrayBytes :
          reply # Raise("InvalidResponse", TypeMismatchText(STRAY_TYPE, <<x>>))
    /\ reply.kind = "return" =>
          reply.value =
              decode_ascii_replace(
                  TEXT_REPLY_FORMAT_search(SubSeq(stream, 1, sent)).message)

\* C5: a complete reassembled reply with status 'CMD Fail!' and a valid
\* checksum makes _send_text_command raise InvalidResponse with the body
\* (or 'Command failed' for an empty body); and however the device cuts
\* such a reply into frames, the exchange ends in InvalidResponse and
\* nothing is returned.
C5_FailStatusRaises ==
    /\ \A k \in 0..Len(full_content) :
          LET body == SubSeq(full_content, 1, k)
          IN  (pc = "done" /\ OnlyReplyFrames
                  /\ IsReplyOf(full_content, body, FAIL))
              => /\ reply = Raise("InvalidResponse",
                                  IF body = <<>> THEN COMMAND_FAILED
                                  ELSE body)
                 /\ fetched.kind # "return"
    /\ \A b \in FaultyBodies :
          IsReplyOf(stream, b, FAIL)
              => /\ reply.kind # "return"
                 /\ fetched.kind # "return"
                 /\ (pc = "done" /\ OnlyReplyFrames)
                        => reply.exc = "InvalidResponse"

C5_Witness ==
    /\ pc = "done"
    /\ IsReplyOf(full_content, <<>>, FAIL)
    /\ reply = Raise("InvalidResponse", COMMAND_FAILED)

\* C6 (as stated): the first non-stray frame of another type than the reply
\* type aborts the exchange with an UnexpectedMessageType error.
C6_UnexpectedMessageType ==
    message_type \notin {-1, TEXT_REPLY_CMD}
        => (pc = "done" /\ reply.kind = "raise"
               /\ reply.exc = "UnexpectedMessageType")

\* C6 (amended): the first non-stray frame of another type than the reply
\* type aborts the exchange with InvalidResponse, whose text names the type
\* and the payload; the payload is not appended, nothing is returned, and
\* no further frame is read.
C6_WrongTypeInvariant ==
    message_type \notin {-1, TEXT_REPLY_CMD} =>
        /\ pc = "done"
        /\ \E o \in OtherFrames :
              /\ o[1] = message_type
              /\ reply = Raise("InvalidResponse",
                               TypeMismatchText(o[1], o[2]))
        /\ full_content = SubSeq(stream, 1, sent)
        /\ fetched.kind # "return"

C6_NothingReadAfterEnd ==
    [][pc = "done" =>
          UNCHANGED <<sent, strays, message_type, full_content, reply,
                      fetched>>]_vars

C6_WrongTypeAborts == []C6_WrongTypeInvariant /\ C6_NothingReadAfterEnd

C6_Witness ==
    /\ pc = "done"
    /\ message_type = STRAY_TYPE
    /\ sent > 0
    /\ sent < Len(stream)
    /\ reply = Raise("InvalidResponse", TypeMismatchText(STRAY_TYPE, OK))

\* C7: _verify_checksum(b, hex(sum(b))) succeeds and
\* _verify_checksum(b, hex(sum(b) + 1)) raises InvalidChecksum with the
\* expected and the calculated value, the sum being plain addition.
C7_VerifyChecksum ==
    call.fn = "verify" =>
        /\ call.delta = 0 => ret = Return(<<>>)
        /\ call.delta = 1 =>
              ret = Raise("InvalidChecksum",
                          <<Total(call.data) + 1, Total(call.data)>>)

C7_Witness ==
    /\ call.fn = "verify"
    /\ call.delta = 1
    /\ call.data = <<200, 255>>
    /\ call.hex = PyHex(456)
    /\ ret = Raise("InvalidChecksum", <<456, 455>>)

\* the rows of the non-empty lines of a multi-record body
RowsOfNonEmptyLines(records_str) ==
    LET lines == SelectSeq(split(records_str, CRLF), LAMBDA l : l # <<>>)
    IN  [i \in 1..Len(lines) |-> split(lines[i], COMMA)]

\* C8: for a multi-record reply whose footer checksum is the byte sum of the
\* body, _get_multirecord produces one record per non-empty line, in order,
\* and no record for an empty line.
C8_OneRecordPerNonEmptyLine ==
    (op = "multirecord" /\ mr_match = "matched" /\ fetched.kind = "return")
        => fetched.value =
               RowsOfNonEmptyLines(
                   MULTIRECORDS_FORMAT_search(reply.value).message)

\* '10,25\r\n11,26\r\n2,00000218\r\n'
COUNT_FOOTER_TEXT ==
    REC_TWO \o <<50>> \o COMMA \o <<48, 48, 48, 48, 48, 50, 49, 56>> \o CRLF

ROW_10_25 == << <<49, 48>>, <<50, 53>> >>           \* ['10', '25']
ROW_11_26 == << <<49, 49>>, <<50, 54>> >>           \* ['11', '26']

C10_LogEmptySentinel ==
    (op = "multirecord" /\ reply.kind = "return") =>
        /\ reply.value = LOG_EMPTY =>
              (mr_match = "unset" /\ fetched = Return(<<>>))
        /\ reply.value # LOG_EMPTY =>
              /\ mr_match \in {"none", "matched"}
              /\ mr_match = "matched"
                    <=> MULTIRECORDS_FORMAT_search(reply.value).matched
              /\ mr_match = "none"
                    => fetched = Raise("InvalidResponse", reply.value)

C10_Witness ==
    /\ op = "multirecord"
    /\ reply = Return(LOG_EMPTY)
    /\ mr_match = "unset"
    /\ fetched = Return(<<>>)

\* the footer of the text that _send_text_command returned
Footer == MULTIRECORDS_FORMAT_search(reply.value)

\* C11: a multi-record reply whose footer checksum differs from the computed
\* sum of the body makes _get_multirecord raise InvalidChecksum with the two
\* values and hand out no record; records are only returned when the two
\* are equal.
C11_FooterChecksumMismatch ==
    (op = "multirecord" /\ reply.kind = "return" /\ Footer.matched) =>
        /\ ParseInt16(Footer.checksum) # Total(Footer.message) =>
              /\ fetched = Raise("InvalidChecksum",
                                 <<ParseInt16(Footer.checksum),
                                   Total(Footer.message)>>)
              /\ fetched.value = <<>>
        /\ fetched.kind = "return" =>
              ParseInt16(Footer.checksum) = Total(Footer.message)

C11_Witness ==
    /\ op = "multirecord"
    /\ reply = Return(MultiBody(REC_ONE, 1, Total(REC_ONE) + 1))
    /\ fetched = Raise("InvalidChecksum",
                       <<Total(REC_ONE) + 1, Total(REC_ONE)>>)

\* the body of the complete reply in the reassembly buffer, as raw bytes
RawBody == TEXT_REPLY_FORMAT_search(full_content).message

\* C12: a multi-record reply whose footer checksum equals the sum of the raw
\* byte values of the records is accepted by _get_multirecord, for every
\* body, bytes from 0x80 up included.
C12_FooterSumOfRawBytes ==
    LET raw == MULTIRECORDS_FORMAT_search(RawBody)
    IN  (/\ op = "multirecord"
         /\ reply.kind = "return"
         /\ raw.matched
         /\ ParseInt16(raw.checksum) = Total(raw.message))
            => fetched.kind = "return"

\* C13: a complete reply with status OK and the checksum of the raw bytes,
\* whose body holds a byte from 0x80 up, makes _send_text_command return a
\* text as long as the body, with the replacement character U+FFFD in the
\* place of every such byte and every ASCII byte unchanged in its place.
C13_ReplacementCharacter ==
    \A k \in 0..Len(full_content) :
        LET body == SubSeq(full_content, 1, k)
        IN  (pc = "done" /\ OnlyReplyFrames
                /\ IsReplyOf(full_content, body, OK))
            => /\ reply.kind = "return"
               /\ Len(reply.value) = Len(body)
               /\ \A i \in 1..Len(body) :
                     reply.value[i] = IF body[i] < 128 THEN body[i]
                                      ELSE REPLACEMENT_CHAR

C13_Witness ==
    /\ pc = "done"
    /\ IsReplyOf(full_content, <<65, 255, 66>>, OK)
    /\ reply = Return(<<65, REPLACEMENT_CHAR, 66>>)

ROW_1_2 == << <<49>>, <<50>> >>                     \* ['1', '2']

C16_ValidationOrder ==
    /\ \A k \in 0..Len(full_content) :
          LET body == SubSeq(full_content, 1, k)
          IN  \A cks \in Checksums(body) :
                  (/\ pc = "done"
                   /\ OnlyReplyFrames
                   /\ full_content = Reply(body, cks, FAIL)
                   /\ cks # Total(body))
                  => reply = Raise("InvalidChecksum", <<cks, Total(body)>>)
    /\ (/\ pc = "done"
        /\ message_type = TEXT_REPLY_CMD
        /\ reply.exc # "RecursionError"
        /\ ~TEXT_REPLY_FORMAT_search(full_content).matched)
          => reply = Raise("InvalidResponse", full_content)

C16_Witness ==
    /\ pc = "done"
    /\ full_content = Reply(DATE_VALUE, Total(DATE_VALUE) + 1, FAIL)
    /\ reply = Raise("InvalidChecksum",
                     <<Total(DATE_VALUE) + 1, Total(DATE_VALUE)>>)

\* the size of every packet that _FREESTYLE_MESSAGE builds
PACKET_SIZE == 2 + COMMAND_REGION

\* C14: a command of more than 62 bytes makes the call fail with the
\* encoding error of the packet builder (construct's PaddingError) with
\* nothing written and no frame read; for a command of at most 62 bytes
\* exactly one packet is written, of 65 bytes: 0, the message type, the
\* length, the command, and zeros.
C14_OversizedCommand ==
    /\ (pc # "idle" /\ Len(command) > COMMAND_REGION - 1) =>
          /\ pc = "done"
          /\ reply.kind = "raise"
          /\ reply.exc = "PaddingError"
          /\ written = <<>>
          /\ stream = <<>> /\ sent = 0 /\ strays = 0
          /\ message_type = -1 /\ full_content = <<>>
          /\ fetched.kind # "return"
    /\ (pc # "idle" /\ Len(command) <= COMMAND_REGION - 1) =>
          /\ Len(written) = 1
          /\ Len(written[1]) = PACKET_SIZE
          /\ SubSeq(written[1], 1, 3 + Len(command))
                = <<0, TEXT_CMD, Len(command)>> \o command
          /\ \A i \in (4 + Len(command))..PACKET_SIZE : written[1][i] = 0

C14_Witness ==
    /\ pc = "done"
    /\ Len(command) = COMMAND_REGION
    /\ reply = Raise("PaddingError", <<COMMAND_REGION + 1, COMMAND_REGION>>)
    /\ written = <<>>

\* C18: as long as the transport has delivered only stray frames and
\* frames of the reply type whose payloads together contain no completion
\* marker, the exchange neither returns nor raises: it is still reading.
C18_NeverEndsWithoutMarker ==
    (/\ written # <<>>
     /\ message_type \in {-1, TEXT_REPLY_CMD}
     /\ ~TEXT_COMPLETION_RE_search(SubSeq(stream, 1, sent)))
        => (pc = "reading" /\ reply = NoOutcome)

\* the methods of the session that run text command exchanges
Exchanging == op \in {"get_datetime", "set_datetime"}

\* C17: exchanges do not leak into each other: an exchange that ends on a
\* frame of the reply type has consumed every byte the device queued for
\* its reply, and the reassembly buffer of an exchange holds only bytes of
\* the reply to its own command.
C17_NoLeak ==
    /\ (/\ Exchanging
        /\ pc = "done"
        /\ message_type = TEXT_REPLY_CMD
        /\ reply.exc # "RecursionError")
          => sent = Len(stream)
    /\ Exchanging
          => \E k \in stale..Len(stream) :
                 full_content = SubSeq(stream, stale + 1, k)

\* the packet connect writes for the i-th message of the init sequence
InitPacket(i) == <<0, INIT_SEQUENCE[i], 0>> \o Zeros(COMMAND_REGION - 1)

\* C19: connect writes one packet with an empty command for each message
\* type of the init sequence, in order, and reads exactly one non-stray
\* frame after each before it writes the next; whatever that frame's type
\* and content are it is dropped and connect returns.  (The only way
\* connect fails is the RecursionError of a run of stray frames.)
C19_HandshakeInvariant ==
    op = "connect" =>
        /\ Len(written) <= Len(INIT_SEQUENCE)
        /\ \A i \in 1..Len(written) : written[i] = InitPacket(i)
        /\ \A i \in 1..Len(results) :
              ~(results[i][1] = STRAY_TYPE
                    /\ Len(results[i][2]) = STRAY_LENGTH)
        /\ pc = "reading" =>
              (Len(written) = Len(results) + 1 /\ fetched = NoOutcome)
        /\ pc = "done" =>
              \/ /\ fetched = Return(<<>>)
                 /\ Len(results) = Len(INIT_SEQUENCE)
                 /\ Len(written) = Len(INIT_SEQUENCE)
              \/ /\ fetched = Raise("RecursionError", <<>>)
                 /\ strays = MaxNesting
                 /\ Len(written) = Len(results) + 1
        /\ Len(results) = Len(INIT_SEQUENCE) => fetched = Return(<<>>)

C19_OneReadPerWrite ==
    [][(op' = "connect" /\ results' # results) =>
          /\ \E o \in InitReplies : results' = Append(results, o)
          /\ strays' = 0
          /\ UNCHANGED <<message_type, full_content, reply>>]_vars

\* C19, as a whole: the states of connect and its reads
C19_Handshake == []C19_HandshakeInvariant /\ C19_OneReadPerWrite

C19_Witness ==
    /\ op = "connect"
    /\ pc = "done"
    /\ written = <<InitPacket(1)>>
    /\ results = << <<STRAY_TYPE, OK>> >>
    /\ fetched = Return(<<>>)

\* the command lists the running method may be working through
OpCommands ==
    IF op = "get_datetime" THEN {get_datetime_commands}
    ELSE {set_datetime_commands(date) : date \in Dates}

\* C20: get_datetime and set_datetime send their commands strictly one
\* after the other: the packet of a command is written when the method is
\* invoked or in the step in which the exchange of the command before it
\* returned a text, frames are read only between the write of a command
\* and the end of its exchange, and after a failed exchange the method is
\* over with the later commands unsent.
C20_SequentialInvariant ==
    Exchanging =>
        \E cmds \in OpCommands :
            LET n == Len(cmds) - Len(todo)      \* commands sent so far
            IN  /\ n \in 1..Len(cmds)
                /\ todo = SubSeq(cmds, n + 1, Len(cmds))
                /\ command = cmds[n]
                /\ written = [i \in 1..n |->
                       FREESTYLE_MESSAGE_build(TEXT_CMD, cmds[i]).value]
                /\ pc = "reading" =>
                      (Len(results) = n - 1 /\ fetched = NoOutcome)
                /\ (pc = "done" /\ reply.kind = "raise") =>
                      (Len(results) = n - 1 /\ fetched = reply)
                /\ (pc = "done" /\ strays = MaxNesting) =>
                      (Len(results) = n - 1
                          /\ fetched = Raise("RecursionError", <<>>))
                /\ (pc = "done" /\ reply.kind = "return"
                       /\ strays < MaxNesting) =>
                      (Len(results) = Len(cmds) /\ todo = <<>>)

C20_WriteAfterSuccess ==
    [][(op' \in {"get_datetime", "set_datetime"} /\ written' # written) =>
          /\ full_content' = <<>>
          /\ \/ /\ pc \in {"idle", "done"}
                /\ ops' = ops + 1
                /\ Len(written') = 1
             \/ /\ pc = "reading"
                /\ sent' > sent
                /\ reply'.kind = "return"
                /\ results' = Append(results, reply'.value)
                /\ ops' = ops
                /\ Len(written') = Len(written) + 1
                /\ SubSeq(written', 1, Len(written)) = written]_vars

C20_ReadWhileReading ==
    [][(sent' # sent \/ strays' # strays \/ results' # results
           \/ (full_content' # full_content /\ full_content' # <<>>))
          => (pc = "reading" \/ ops' = ops + 1)]_vars

\* C20, as a whole: the states of the two methods, their writes and reads
C20_Sequential ==
    []C20_SequentialInvariant /\ C20_WriteAfterSuccess /\ C20_ReadWhileReading

C20_Witness ==
    /\ op = "set_datetime"
    /\ pc = "done"
    /\ Len(written) = 4
    /\ Len(results) = 4
    /\ fetched = Return([year |-> 2019, month |-> 12, day |-> 31,
                         hour |-> 10, minute |-> 30])

====
